---- MODULE Spec2Model ----
(***************************************************************************)
(* A model of extract_from_zip (app.py): one invocation of the layer       *)
(* extractor, from the copy of the caller's table to the return of the     *)
(* augmented table or the propagation of a raster failure.                 *)
(*                                                                         *)
(* Strings are sequences of one-character strings, so that formatting,     *)
(* padding and lower-casing are computed character by character.           *)
(* Tables live in a heap of objects, so that the copy made at the start    *)
(* and the caller's table are distinct objects (or not, in a mutant).      *)
(***************************************************************************)
EXTENDS Integers, Sequences, FiniteSets, TLC

VARIABLES
    heap,         \* object id -> table [cols, data]
    df,           \* reference of the caller's table
    lon_col,      \* name of the longitude column
    lat_col,      \* name of the latitude column
    var,          \* variable code
    res,          \* resolution code
    pixel_window, \* None or <<n>>, n an integer
    zip_url,      \* archive url
    coords,       \* list of <<lon, lat>> built at the start of the call
    result,       \* reference of the copy, None before the copy
    i,            \* layer index of the for loop
    vals,         \* values of the current layer
    pc,           \* position in extract_from_zip
    exc,          \* the exception propagating, None if none
    returned,     \* the reference returned to the caller, None if none
    gdalConfig,   \* ambient GDAL configuration options
    envStack,     \* configurations saved by the active rasterio.Env blocks
    openHandles,  \* rasters currently open, each with its layer and path
    opens,        \* layer indices of the raster opens attempted so far
    windowReads,  \* number of window reads (src.read) performed so far
    configBefore  \* the ambient configuration when the call began

vars == <<heap, df, lon_col, lat_col, var, res, pixel_window, zip_url, coords,
          result, i, vals, pc, exc, returned, gdalConfig, envStack,
          openHandles, opens, windowReads, configBefore>>

\* Python's None; a value x that may be None is held as <<x>>
None == <<>>

\* ------------------------------------------------------------------ bounds

MaxRows == 2
MaxWindow == 3
RasterWidth == 3
RasterHeight == 3

\* ----------------------------------------------------------------- strings

Digits == <<"0", "1", "2", "3", "4", "5", "6", "7", "8", "9">>

UpperCase == <<"A", "B", "C", "D", "E", "F", "G", "H", "I", "J", "K", "L", "M",
               "N", "O", "P", "Q", "R", "S", "T", "U", "V", "W", "X", "Y", "Z">>

LowerCase == <<"a", "b", "c", "d", "e", "f", "g", "h", "i", "j", "k", "l", "m",
               "n", "o", "p", "q", "r", "s", "t", "u", "v", "w", "x", "y", "z">>

LowerChar(c) ==
    IF \E k \in 1..26 : UpperCase[k] = c
    THEN LowerCase[CHOOSE k \in 1..26 : UpperCase[k] = c]
    ELSE c

\* str.lower()
Lower(s) == [k \in 1..Len(s) |-> LowerChar(s[k])]

\* str(i) for i >= 0
RECURSIVE Str(_)
Str(n) == IF n < 10 THEN <<Digits[n + 1]>>
          ELSE Str(n \div 10) \o <<Digits[(n % 10) + 1]>>

\* f"{i:02d}" for i >= 0
RECURSIVE ZeroPad(_, _)
ZeroPad(s, width) == IF Len(s) >= width THEN s ELSE ZeroPad(<<"0">> \o s, width)

Pad2(n) == ZeroPad(Str(n), 2)

Bio == <<"b", "i", "o">>

IsBio(v) == Lower(v) = Bio

\* a variant of MaxLayer that compares the variable without lower-casing it
MaxLayerCaseSensitive(v) == IF v = Bio THEN 19 ELSE 12

\* max_layer = 19 if var.lower() == "bio" else 12
MaxLayer(v) == IF IsBio(v) THEN 19 ELSE 12

\* istr
IndexStr(v, n) == IF IsBio(v) THEN Str(n) ELSE Pad2(n)

Wc == <<"w", "c", "2", ".", "1", "_">>
Tif == <<".", "t", "i", "f">>
Zip == <<".", "z", "i", "p">>
Us == <<"_">>
Slash == <<"/">>

\* a variant of Inside that lower-cases the variable in the member name
InsideLowered(r, v, istr) == Wc \o r \o Us \o Lower(v) \o Us \o istr \o Tif

\* inside = f"wc2.1_{res}_{var}_{istr}.tif"
Inside(r, v, istr) == Wc \o r \o Us \o v \o Us \o istr \o Tif

VsiPrefix == <<"/", "v", "s", "i", "z", "i", "p", "/",
               "v", "s", "i", "c", "u", "r", "l", "/">>

\* vsi_path = f"/vsizip/vsicurl/{zip_url}/{inside}"
VsiPath(url, inside) == VsiPrefix \o url \o Slash \o inside

\* f"{var}_{res}_{istr}"
ColumnName(v, r, istr) == v \o Us \o r \o Us \o istr

BaseUrl == <<"h", "t", "t", "p", "s", ":", "/", "/", "g", "e", "o", "d", "a", "t", "a",
             ".", "u", "c", "d", "a", "v", "i", "s", ".", "e", "d", "u", "/",
             "c", "l", "i", "m", "a", "t", "e", "/",
             "w", "o", "r", "l", "d", "c", "l", "i", "m", "/", "2", "_", "1", "/",
             "b", "a", "s", "e">>

\* zip_url = f"{base_url}/wc2.1_{res}_{var}.zip"
ZipUrl(r, v) == BaseUrl \o Slash \o Wc \o r \o Us \o v \o Zip

\* ------------------------------------------------------------------ raster

\* The georeferencing of the synthetic rasters: the upper left corner and the
\* pixel size, in the integer units the coordinates are given in.
Transform == [x0 |-> 10, y0 |-> 20, px |-> 2]

\* The rasters of the archive: layer n holds Cell(n, r, c) at row r, column c
\* (0-based); layers with an even index declare no nodata value.
Cell(n, r, c) == ((n + 3 * r + 5 * c) % 7) + 1

NoData(n) == IF n % 2 = 0 THEN None ELSE <<0 - 9>>

InBounds(r, c) == r >= 0 /\ r < RasterHeight /\ c >= 0 /\ c < RasterWidth

\* the value a read substitutes outside the raster: nodata, or 0 without one
FillValue(n) == IF NoData(n) = None THEN 0 ELSE NoData(n)[1]

\* A number of a table (a coordinate, an extracted value) is a fraction.
Num(n) == [num |-> n, den |-> 1]

\* row, col = src.index(lon, lat): floor of the inverse transform
Index(lon, lat) ==
    [row |-> (Transform.y0 * lat.den - lat.num) \div (Transform.px * lat.den),
     col |-> (lon.num - Transform.x0 * lon.den) \div (Transform.px * lon.den)]

\* a variant of Window that offsets by the ceiling of pixel_window / 2
WindowCeil(row, col, n) ==
    [col_off |-> col - ((n + 1) \div 2), row_off |-> row - ((n + 1) \div 2),
     width |-> n, height |-> n]

\* Window(col - pixel_window // 2, row - pixel_window // 2, pixel_window, pixel_window)
Window(row, col, n) ==
    [col_off |-> col - (n \div 2), row_off |-> row - (n \div 2),
     width |-> n, height |-> n]

\* arr = src.read(1, window=win, boundless=True): a height x width array
ReadBoundless(n, win) ==
    [r \in 1..win.height |->
        [c \in 1..win.width |->
            IF InBounds(win.row_off + r - 1, win.col_off + c - 1)
            THEN Cell(n, win.row_off + r - 1, win.col_off + c - 1)
            ELSE FillValue(n)]]

RECURSIVE SumSeq(_)
SumSeq(s) == IF s = <<>> THEN 0 ELSE Head(s) + SumSeq(Tail(s))

\* arr.mean(): the sum of all cells over their number, kept as a fraction
Mean(arr) ==
    [num |-> SumSeq([r \in 1..Len(arr) |-> SumSeq(arr[r])]),
     den |-> Len(arr) * (IF Len(arr) = 0 THEN 0 ELSE Len(arr[1]))]

\* the value of one coordinate in windowed mode (lines 40-48)
FocalMean(n, lon, lat, pw) ==
    LET rc == Index(lon, lat)
    IN  Mean(ReadBoundless(n, Window(rc.row, rc.col, pw)))

\* one value of src.sample(coords): the pixel under the coordinate, or the
\* fill value when the coordinate lies outside the raster
Sample(n, lon, lat) ==
    LET rc == Index(lon, lat)
    IN  Num(IF InBounds(rc.row, rc.col) THEN Cell(n, rc.row, rc.col) ELSE FillValue(n))

\* a variant of Windowed that takes the windowed branch for pixel_window = 1 too
WindowedFromOne(pw) == pw # None /\ pw[1] # 0 /\ pw[1] >= 1

\* if pixel_window and pixel_window > 1
Windowed(pw) == pw # None /\ pw[1] # 0 /\ pw[1] > 1

\* the value appended to vals for one coordinate
Extract(n, lon, lat, pw) ==
    IF Windowed(pw) THEN FocalMean(n, lon, lat, pw[1]) ELSE Sample(n, lon, lat)

\* pw if pw > 1 else None
CallSiteWindow(pw) == IF pw > 1 THEN <<pw>> ELSE None

\* ------------------------------------------------------------------ tables

NRows(t) == IF Len(t.data) = 0 THEN 0 ELSE Len(t.data[1])

HasColumn(t, name) == \E k \in 1..Len(t.cols) : t.cols[k] = name

\* df[name]
Column(t, name) == t.data[CHOOSE k \in 1..Len(t.cols) : t.cols[k] = name]

\* a variant of Coords that pairs latitude with longitude
CoordsSwapped(t, lon, lat) ==
    [r \in 1..NRows(t) |-> <<Column(t, lat)[r], Column(t, lon)[r]>>]

\* coords = list(zip(df[lon_col], df[lat_col]))
Coords(t, lon, lat) ==
    [r \in 1..NRows(t) |-> <<Column(t, lon)[r], Column(t, lat)[r]>>]

\* a variant of DfCopy that hands back the caller's own table
DfAlias(h, ref) == [heap |-> h, ref |-> ref]

\* result = df.copy(): a new object holding the same columns and values
DfCopy(h, ref) ==
    LET new == Cardinality(DOMAIN h) + 1
    IN  [heap |-> h @@ (new :> h[ref[1]]), ref |-> <<new>>]

\* result[name] = vals: an existing column is overwritten in place, a new one
\* is appended after the last column
SetColumn(t, name, v) ==
    IF HasColumn(t, name)
    THEN [t EXCEPT !.data[CHOOSE k \in 1..Len(t.cols) : t.cols[k] = name] = v]
    ELSE [cols |-> Append(t.cols, name), data |-> Append(t.data, v)]

\* ------------------------------------------------------- GDAL configuration

\* A configuration is a set of <<option, value>> pairs.
gdal_cfg ==
    {<<"CPL_VSIL_CURL_ALLOWED_EXTENSIONS", ".zip,.tif">>,
     <<"GDAL_DISABLE_READDIR_ON_OPEN", "EMPTY_DIR">>,
     <<"CPL_VSIL_CURL_USE_HEAD", "YES">>}

\* the options of a with those of b set over them
Merge(a, b) == {p \in a : ~ \E q \in b : q[1] = p[1]} \cup b

\* entering "with rasterio.Env(**gdal_cfg)": the options in force are saved
\* and the block's options are set over them
EnvEnter(stack, cfg) == [stack |-> Append(stack, cfg), cfg |-> Merge(cfg, gdal_cfg)]

\* a variant of EnvExit that leaves the block's options in force
EnvExitKeep(stack, cfg) == [stack |-> SubSeq(stack, 1, Len(stack) - 1), cfg |-> cfg]

\* leaving the block, normally or by an exception: the saved options are set back
EnvExit(stack, cfg) ==
    [stack |-> SubSeq(stack, 1, Len(stack) - 1), cfg |-> stack[Len(stack)]]

\* a variant of OnException in which the block swallows the exception
OnExceptionSwallowed == "assign"

\* extract_from_zip has no handler: an exception leaves the function
OnException == "failed"

\* ------------------------------------------------------------------ inputs

Longitude == <<"L", "o", "n", "g", "i", "t", "u", "d", "e">>
Latitude == <<"L", "a", "t", "i", "t", "u", "d", "e">>

\* The variable and resolution selected (lines 127-128), and "Bio" as a
\* direct caller may spell it.
Selections ==
    {<< <<"b", "i", "o">>, <<"2", ".", "5", "m">> >>,
     << <<"B", "i", "o">>, <<"1", "0", "m">> >>,
     << <<"t", "m", "i", "n">>, <<"1", "0", "m">> >>,
     << <<"e", "l", "e", "v">>, <<"3", "0", "s">> >>}

\* Coordinates: inside the middle pixel, in the upper left pixel, and outside
\* the raster.
Points ==
    {<<[num |-> 27, den |-> 2], Num(17)>>,
     <<Num(10), Num(20)>>,
     <<Num(9), Num(21)>>}

\* A further column of the uploaded table: none, or one whose name is that of
\* a layer column of one of the selections.
ExtraColumns ==
    {<<>>,
     << <<"t", "m", "i", "n", "_", "1", "0", "m", "_", "0", "2">> >>}

RowLists == UNION {[1..n -> Points] : n \in 0..MaxRows}

\* the uploaded table: the two coordinate columns, then the further column
UploadedTable(rows, extra) ==
    [cols |-> <<Longitude, Latitude>> \o extra,
     data |-> <<[r \in 1..Len(rows) |-> rows[r][1]],
                [r \in 1..Len(rows) |-> rows[r][2]]>>
              \o [k \in 1..Len(extra) |-> [r \in 1..Len(rows) |-> Num(100 + r)]]]

\* the configuration in force before the call: options set by the process,
\* one of them an option the extractor sets too
PriorConfigs ==
    {{<<"CPL_VSIL_CURL_USE_HEAD", "NO">>, <<"GDAL_CACHEMAX", "64">>}}

\* pixel_window as the call site passes it (lines 129-151), and as a direct
\* caller may pass it
PixelWindows ==
    {CallSiteWindow(pw) : pw \in 1..MaxWindow} \cup {<<n>> : n \in (0 - 1)..1}

Init ==
    /\ \E rows \in RowLists, extra \in ExtraColumns :
           heap = (1 :> UploadedTable(rows, extra))
    /\ df = <<1>>
    /\ lon_col = Longitude
    /\ lat_col = Latitude
    /\ \E sel \in Selections :
           /\ var = sel[1]
           /\ res = sel[2]
           /\ zip_url = ZipUrl(sel[2], sel[1])
    /\ pixel_window \in PixelWindows
    /\ coords = <<>>
    /\ result = None
    /\ i = 0
    /\ vals = <<>>
    /\ pc = "call"
    /\ exc = None
    /\ returned = None
    /\ gdalConfig \in PriorConfigs
    /\ configBefore = gdalConfig
    /\ envStack = <<>>
    /\ openHandles = {}
    /\ opens = <<>>
    /\ windowReads = 0

\* ----------------------------------------------------------------- actions

inputs == <<df, lon_col, lat_col, var, res, pixel_window, zip_url, configBefore>>

\* the path of the raster of layer i
LayerPath == VsiPath(zip_url, Inside(res, var, IndexStr(var, i)))

\* lines 13-14: the coordinates are read and the table is copied
Call ==
    /\ pc = "call"
    /\ coords' = Coords(heap[df[1]], lon_col, lat_col)
    /\ LET c == DfCopy(heap, df)
       IN  heap' = c.heap /\ result' = c.ref
    /\ i' = 1
    /\ pc' = "loop"
    /\ UNCHANGED <<inputs, vals, exc, returned, gdalConfig, envStack,
                   openHandles, opens, windowReads>>

\* lines 24-35: the next layer begins; vals is reset and the Env block entered
EnterLayer ==
    /\ pc = "loop"
    /\ i <= MaxLayer(var)
    /\ vals' = <<>>
    /\ LET e == EnvEnter(envStack, gdalConfig)
       IN  envStack' = e.stack /\ gdalConfig' = e.cfg
    /\ pc' = "env"
    /\ UNCHANGED <<inputs, heap, coords, result, i, exc, returned,
                   openHandles, opens, windowReads>>

\* line 36: rasterio.open succeeds
OpenOk ==
    /\ pc = "env"
    /\ opens' = Append(opens, i)
    /\ openHandles' = openHandles \cup {[layer |-> i, path |-> LayerPath]}
    /\ pc' = "read"
    /\ UNCHANGED <<inputs, heap, coords, result, i, vals, exc, returned,
                   gdalConfig, envStack, windowReads>>

\* line 36: rasterio.open raises
OpenFail ==
    /\ pc = "env"
    /\ opens' = Append(opens, i)
    /\ exc' = <<[kind |-> "open", layer |-> i]>>
    /\ pc' = "exit_env"
    /\ UNCHANGED <<inputs, heap, coords, result, i, vals, returned,
                   gdalConfig, envStack, openHandles, windowReads>>

\* lines 39-48 and 50: the value of the next coordinate is appended
ReadCoord ==
    /\ pc = "read"
    /\ Len(vals) < Len(coords)
    /\ LET xy == coords[Len(vals) + 1]
       IN  vals' = Append(vals, Extract(i, xy[1], xy[2], pixel_window))
    /\ windowReads' = IF Windowed(pixel_window) THEN windowReads + 1 ELSE windowReads
    /\ UNCHANGED <<inputs, heap, coords, result, i, pc, exc, returned,
                   gdalConfig, envStack, openHandles, opens>>

\* lines 40-48 and 50: the read of the next coordinate raises
ReadFail ==
    /\ pc = "read"
    /\ Len(vals) < Len(coords)
    /\ exc' = <<[kind |-> "read", layer |-> i]>>
    /\ pc' = "close"
    /\ UNCHANGED <<inputs, heap, coords, result, i, vals, returned,
                   gdalConfig, envStack, openHandles, opens, windowReads>>

\* every coordinate is read: the body of "with rasterio.open" ends
ReadDone ==
    /\ pc = "read"
    /\ Len(vals) = Len(coords)
    /\ pc' = "close"
    /\ UNCHANGED <<inputs, heap, coords, result, i, vals, exc, returned,
                   gdalConfig, envStack, openHandles, opens, windowReads>>

\* the rasters open once "with rasterio.open(...) as src" is left
Closed(handles, n) == {h \in handles : h.layer # n}

\* line 36: the raster is closed, on the normal path and on an exception
CloseSrc ==
    /\ pc = "close"
    /\ openHandles' = Closed(openHandles, i)
    /\ pc' = "exit_env"
    /\ UNCHANGED <<inputs, heap, coords, result, i, vals, exc, returned,
                   gdalConfig, envStack, opens, windowReads>>

\* line 35: the Env block is left, on the normal path and on an exception
ExitEnv ==
    /\ pc = "exit_env"
    /\ LET e == EnvExit(envStack, gdalConfig)
       IN  envStack' = e.stack /\ gdalConfig' = e.cfg
    /\ pc' = IF exc = None THEN "assign" ELSE OnException
    /\ UNCHANGED <<inputs, heap, coords, result, i, vals, exc, returned,
                   openHandles, opens, windowReads>>

\* line 51: the column of layer i is set on the copy; a list whose length is
\* not the table's is refused
Assign ==
    /\ pc = "assign"
    /\ IF Len(vals) = NRows(heap[result[1]])
       THEN /\ heap' = [heap EXCEPT ![result[1]] =
                           SetColumn(@, ColumnName(var, res, IndexStr(var, i)), vals)]
            /\ i' = i + 1
            /\ pc' = "loop"
            /\ exc' = exc
       ELSE /\ exc' = <<[kind |-> "length", layer |-> i]>>
            /\ pc' = "failed"
            /\ UNCHANGED <<heap, i>>
    /\ UNCHANGED <<inputs, coords, result, vals, returned, gdalConfig,
                   envStack, openHandles, opens, windowReads>>

\* line 54: every layer is done and the copy is returned
Return ==
    /\ pc = "loop"
    /\ i > MaxLayer(var)
    /\ returned' = result
    /\ pc' = "returned"
    /\ UNCHANGED <<inputs, heap, coords, result, i, vals, exc, gdalConfig,
                   envStack, openHandles, opens, windowReads>>

Next ==
    \/ Call
    \/ EnterLayer
    \/ OpenOk
    \/ OpenFail
    \/ ReadCoord
    \/ ReadFail
    \/ ReadDone
    \/ CloseSrc
    \/ ExitEnv
    \/ Assign
    \/ Return

Spec == Init /\ [][Next]_vars

\* ------------------------------------------------------------------ claims

\* The index strings of the two layer policies, written out.
BioIndexStrings ==
    <<<<"1">>,
      <<"2">>,
      <<"3">>,
      <<"4">>,
      <<"5">>,
      <<"6">>,
      <<"7">>,
      <<"8">>,
      <<"9">>,
      <<"1", "0">>,
      <<"1", "1">>,
      <<"1", "2">>,
      <<"1", "3">>,
      <<"1", "4">>,
      <<"1", "5">>,
      <<"1", "6">>,
      <<"1", "7">>,
      <<"1", "8">>,
      <<"1", "9">>>>

MonthIndexStrings ==
    <<<<"0", "1">>,
      <<"0", "2">>,
      <<"0", "3">>,
      <<"0", "4">>,
      <<"0", "5">>,
      <<"0", "6">>,
      <<"0", "7">>,
      <<"0", "8">>,
      <<"0", "9">>,
      <<"1", "0">>,
      <<"1", "1">>,
      <<"1", "2">>>>

\* the spellings of "bio" in either case
BioSpellings ==
    {<<a, b, c>> : a \in {"b", "B"}, b \in {"i", "I"}, c \in {"o", "O"}}

ExpectedIndexStrings ==
    IF var \in BioSpellings THEN BioIndexStrings ELSE MonthIndexStrings

\* {var}_{res}_{idx} for every layer, in layer order
ExpectedNames ==
    [k \in 1..Len(ExpectedIndexStrings) |->
        var \o <<"_">> \o res \o <<"_">> \o ExpectedIndexStrings[k]]

Range(s) == {s[k] : k \in 1..Len(s)}

Original == heap[df[1]]

Copy == heap[result[1]]

\* the layer being processed has index i and vals holds its values
InLayer == pc \in {"read", "close", "exit_env", "assign"}

\* C1: a call that returns has set exactly the columns {var}_{res}_{idx}:
\* 19 of them, idx 1..19 unpadded, when var is "bio" in any case, and 12 of
\* them, idx 01..12, for every other var; each layer's column is named so.
C1_ColumnNames ==
    /\ pc = "assign" =>
          /\ i \in 1..Len(ExpectedNames)
          /\ ColumnName(var, res, IndexStr(var, i)) = ExpectedNames[i]
    /\ pc = "returned" =>
          /\ i = Len(ExpectedNames) + 1
          /\ Range(heap[returned[1]].cols) = Range(Original.cols) \cup Range(ExpectedNames)
          /\ Len(ExpectedNames) = IF var \in BioSpellings THEN 19 ELSE 12

\* a call for "Bio" returned its 19 unpadded columns
C1_Witness ==
    /\ pc = "returned"
    /\ var = <<"B", "i", "o">>
    /\ Len(heap[returned[1]].cols) = Len(Original.cols) + 19

\* C2: the returned table holds the input's columns with their values
\* unchanged, followed by max_layer added columns in layer order, whatever
\* the names of the input's columns.
C2_ColumnsAppended ==
    pc = "returned" =>
        LET t == heap[returned[1]]
        IN  /\ t.cols = Original.cols \o ExpectedNames
            /\ Len(t.cols) = Len(Original.cols) + (IF var \in BioSpellings THEN 19 ELSE 12)
            /\ \A k \in 1..Len(Original.cols) : t.data[k] = Original.data[k]

\* C3: the returned table has the input's rows in the input's order, and the
\* value of every layer column at row r is the one extracted at row r's
\* (lon, lat) pair, one value for each row.
C3_RowsPreserved ==
    pc = "returned" =>
        LET t == heap[returned[1]]
        IN  /\ NRows(t) = NRows(Original)
            /\ Column(t, lon_col) = Column(Original, lon_col)
            /\ Column(t, lat_col) = Column(Original, lat_col)
            /\ \A k \in 1..Len(ExpectedNames) :
                  /\ HasColumn(t, ExpectedNames[k])
                  /\ Len(Column(t, ExpectedNames[k])) = NRows(Original)
                  /\ \A r \in 1..NRows(Original) :
                        Column(t, ExpectedNames[k])[r] =
                            Extract(k, Column(Original, lon_col)[r],
                                    Column(Original, lat_col)[r], pixel_window)

\* a table of two rows at different places was returned
C3_Witness ==
    /\ pc = "returned"
    /\ NRows(Original) >= 2
    /\ Column(Original, lon_col)[1] # Column(Original, lon_col)[2]

\* C4: no step of the call changes the caller's table, and the table the
\* columns are written to is another object than the caller's.
C4_InputNotMutated ==
    [][/\ df' = df
       /\ heap'[df[1]] = heap[df[1]]
       /\ result' # None => result' # df]_vars

\* a call failed after columns were added to the copy
C4_Witness ==
    /\ pc = "failed"
    /\ result # None
    /\ Len(Copy.cols) >= Len(Original.cols) + 2

\* C5: once the open or a read of layer k fails, nothing is returned, no
\* later layer is attempted and no column is short; a table is returned only
\* after every layer was opened and read.
C5_FailureAborts ==
    /\ exc # None =>
          /\ returned = None
          /\ pc \in {"close", "exit_env", "failed"}
          /\ i = exc[1].layer
          /\ Len(opens) = exc[1].layer
          /\ \A k \in 1..Len(Copy.data) : Len(Copy.data[k]) = NRows(Original)
    /\ pc = "failed" => exc # None
    /\ returned # None =>
          /\ exc = None
          /\ Len(opens) = Len(ExpectedNames)
          /\ \A k \in 1..Len(ExpectedNames) :
                /\ HasColumn(heap[returned[1]], ExpectedNames[k])
                /\ Len(Column(heap[returned[1]], ExpectedNames[k])) = NRows(Original)

\* a read failed at a later layer, after a value of that layer was computed
C5_Witness ==
    /\ pc = "failed"
    /\ exc # None
    /\ exc[1].kind = "read"
    /\ exc[1].layer >= 2
    /\ Len(vals) >= 1

Malformed(pw) == pw # None /\ (pw[1] <= 0 \/ pw[1] % 2 = 0)

\* C6: with a non-positive or even pixel window, the call is rejected before
\* any raster is opened and any value is computed.
C6_MalformedWindowRejected ==
    Malformed(pixel_window) => (opens = <<>> /\ vals = <<>> /\ returned = None)

InEnv == pc \in {"env", "read", "close", "exit_env"}

\* C7: the extractor's options are in force while a raster is opened or
\* read, and outside of that (between layers, after the return, after a
\* failure) the configuration is the one that held before the call.
C7_ConfigScoped ==
    /\ InEnv => (gdal_cfg \subseteq gdalConfig /\ envStack = <<configBefore>>)
    /\ ~InEnv => (gdalConfig = configBefore /\ envStack = <<>>)

\* an open failed at a later layer, under a configuration set before the call
C7_Witness ==
    /\ pc = "failed"
    /\ exc # None
    /\ exc[1].kind = "open"
    /\ exc[1].layer >= 2
    /\ configBefore # {}
    /\ gdalConfig # gdal_cfg

\* the cell of layer n at (r, c), the fill value outside the raster
CellOrFill(n, r, c) ==
    IF r >= 0 /\ r < RasterHeight /\ c >= 0 /\ c < RasterWidth
    THEN Cell(n, r, c)
    ELSE FillValue(n)

RECURSIVE SumCells(_, _)
SumCells(n, cells) ==
    IF cells = {} THEN 0
    ELSE LET rc == CHOOSE x \in cells : TRUE
         IN  CellOrFill(n, rc[1], rc[2]) + SumCells(n, cells \ {rc})

\* the cells of the window of side n whose top left corner is n div 2 cells
\* up and left of (row, col)
WindowCells(row, col, n) ==
    {<<row - (n \div 2) + dr, col - (n \div 2) + dc>> : dr \in 0..(n - 1), dc \in 0..(n - 1)}

FracEq(a, b) == a.num * b.den = b.num * a.den

\* C8: in windowed mode every value is the mean of the N*N cells of the
\* window with top left corner (col - N div 2, row - N div 2), cells outside
\* the raster counting with the fill value; for odd N the window is centred.
C8_FocalMean ==
    (Windowed(pixel_window) /\ InLayer) =>
        \A k \in 1..Len(vals) :
            LET n == pixel_window[1]
                rc == Index(coords[k][1], coords[k][2])
                w == Window(rc.row, rc.col, n)
            IN  /\ vals[k].den = n * n
                /\ vals[k].num = SumCells(i, WindowCells(rc.row, rc.col, n))
                /\ n % 2 = 1 =>
                      /\ rc.row - w.row_off = w.row_off + w.height - 1 - rc.row
                      /\ rc.col - w.col_off = w.col_off + w.width - 1 - rc.col

\* a 3x3 mean was computed for the upper left pixel, whose window leaves the
\* raster
C8_Witness ==
    /\ pixel_window = <<3>>
    /\ pc = "close"
    /\ exc = None
    /\ \E k \in 1..Len(vals) :
          /\ Index(coords[k][1], coords[k][2]) = [row |-> 0, col |-> 0]
          /\ vals[k].den = 9

\* C9: with pixel_window None or 1 no window is read, and every value is the
\* value of the pixel under the coordinate, which is what the mean of the
\* 1x1 window at that pixel is.
C9_ExactPixel ==
    (pixel_window = None \/ pixel_window = <<1>>) =>
        /\ windowReads = 0
        /\ InLayer =>
              \A k \in 1..Len(vals) :
                  LET rc == Index(coords[k][1], coords[k][2])
                  IN  /\ vals[k] = Num(CellOrFill(i, rc.row, rc.col))
                      /\ FracEq(vals[k], FocalMean(i, coords[k][1], coords[k][2], 1))

\* with pixel_window 1, the values of a layer were sampled
C9_Witness ==
    /\ pixel_window = <<1>>
    /\ pc = "close"
    /\ exc = None
    /\ Len(vals) >= 2

ExpectedArchive ==
    BaseUrl \o <<"/", "w", "c", "2", ".", "1", "_">> \o res \o <<"_">> \o var
            \o <<".", "z", "i", "p">>

ExpectedPath(k) ==
    <<"/", "v", "s", "i", "z", "i", "p", "/", "v", "s", "i", "c", "u", "r", "l", "/">>
        \o ExpectedArchive \o <<"/", "w", "c", "2", ".", "1", "_">> \o res \o <<"_">>
        \o var \o <<"_">> \o ExpectedIndexStrings[k] \o <<".", "t", "i", "f">>

\* C10: the k-th open of a call is that of layer k at its virtual path, a
\* call that returns has opened each layer once, at most one raster is open
\* at a time, and none is open before an open, between layers or at the end.
C10_OneOpenPerLayer ==
    /\ Cardinality(openHandles) <= 1
    /\ pc \in {"call", "loop", "env", "exit_env", "assign", "returned", "failed"} =>
          openHandles = {}
    /\ pc \in {"read", "close"} =>
          openHandles = {[layer |-> i, path |-> ExpectedPath(i)]}
    /\ zip_url = ExpectedArchive
    /\ Len(opens) <= Len(ExpectedNames)
    /\ \A k \in 1..Len(opens) : opens[k] = k
    /\ Len(opens) = IF pc = "call" THEN 0
                     ELSE IF pc \in {"loop", "env", "returned"} THEN i - 1 ELSE i
    /\ pc = "returned" => Len(opens) = Len(ExpectedNames)

\* a call for "Bio" returned after its 19 opens
C10_Witness ==
    /\ pc = "returned"
    /\ var = <<"B", "i", "o">>
    /\ Len(opens) = 19
    /\ openHandles = {}

====
